---- MODULE Spec2Model ----
(***************************************************************************)
(* osm-ways-slope: the run of main() in src/main.rs.                       *)
(*                                                                         *)
(* The program parses an optional filter string, reads an OSM file,        *)
(* selects the ways whose tags satisfy the filter together with the nodes  *)
(* they reference, samples the elevation raster once per such node, folds  *)
(* over the consecutive node pairs of every selected way and writes one    *)
(* WayInfo per way to the output file.                                     *)
(*                                                                         *)
(* Representation.                                                         *)
(*   - A string is a tuple of one-character strings.                       *)
(*   - Option<T>: None is << >>, Some(v) is << v >>.                       *)
(*   - Angles are integers in milliradians and all nodes lie on the        *)
(*     meridian of longitude 0.  There d_lon = 0, so the haversine term    *)
(*     a is sin^2(d_lat/2) and c = 2*atan2(sqrt a, sqrt(1-a)) = |d_lat|.   *)
(*     With c in milliradians, 6371 * c is the length in metres, the       *)
(*     value the program obtains as (6371.0 * c_radians) * 1000.           *)
(*   - Elevations are integers (metres); the raster is one pixel wide.     *)
(*   - A panic (unwrap/expect on a failure) ends the run: pc = "panicked". *)
(*   - The OSM file holds nodes and ways; relations, which the predicate   *)
(*     never selects, are left out.                                        *)
(***************************************************************************)
EXTENDS Integers, Sequences, FiniteSets, TLC

VARIABLES
    args_filter,      \* args.filter: Option<String>
    pbf,              \* the objects of the OSM file: OsmId -> OsmObj
    files_ok,         \* whether both input files open (and the raster has a band
                      \* and an invertible transform)
    write_ok,         \* whether the output file can be written
    pc,               \* position of main()
    filters,          \* Vec<Filter>
    objs,             \* BTreeMap<OsmId, OsmObj> returned by get_objs_and_deps
    node_iter,        \* nodes of objs the sampling loop has not visited yet
    node_elevation,   \* FxHashMap<i64, f64>
    read_calls,       \* number of rasterband.read_as calls made for each node id
    way_iter,         \* ways of objs the aggregation loop has not visited yet
    seg,              \* index of the next pair of the current way's zipped iterator
    acc,              \* distance, climb_distance, descent_distance, climb, descent
    result_map,       \* FxHashMap<i64, WayInfo>
    output            \* Option<contents of args.output_file>

vars == << args_filter, pbf, files_ok, write_ok, pc, filters, objs, node_iter,
           node_elevation, read_calls, way_iter, seg, acc, result_map, output >>

---------------------------------------------------------------------------
(* Bounds *)

\* Longest node sequence of a way.
MaxWayLen == 3

\* Longest filter string of the parsing specification.
MaxStrLen == 5

---------------------------------------------------------------------------
(* Options and strings *)

None == << >>

Some(v) == << v >>

Abs(n) == IF n < 0 THEN -n ELSE n

Highway == << "h", "i", "g", "h", "w", "a", "y" >>

Surface == << "s", "u", "r", "f", "a", "c", "e" >>

Primary == << "p", "r", "i", "m", "a", "r", "y" >>

Paved == << "p", "a", "v", "e", "d" >>

Crossing == << "c", "r", "o", "s", "s", "i", "n", "g" >>

\* Index of the first occurrence of c in s, 0 when there is none.
RECURSIVE Find(_, _, _)
Find(s, c, i) ==
    IF i > Len(s) THEN 0
    ELSE IF s[i] = c THEN i
    ELSE Find(s, c, i + 1)

\* str::split(c): the pieces between the occurrences of c, empty pieces kept.
RECURSIVE Split(_, _)
Split(s, c) ==
    LET i == Find(s, c, 1) IN
    IF i = 0 THEN << s >>
    ELSE << SubSeq(s, 1, i - 1) >> \o Split(SubSeq(s, i + 1, Len(s)), c)

---------------------------------------------------------------------------
(* Filters *)

FilterKey(key) == [type |-> "Key", key |-> key]

FilterKeyValue(key, value) == [type |-> "KeyValue", key |-> key, value |-> value]

\* One iteration of the loop over the comma-separated conditions:
\* key is the first piece of split('='), value the second piece if any.
ParseCondition(k_or_kv) ==
    LET split == Split(k_or_kv, "=")
        key   == split[1]
        value == IF Len(split) >= 2 THEN Some(split[2]) ELSE None
    IN  IF value # None THEN FilterKeyValue(key, value[1]) ELSE FilterKey(key)

\* The filters built from args.filter.
ParseFilters(filter) ==
    IF filter # None
    THEN LET split == Split(filter[1], ",") IN
         [i \in 1..Len(split) |-> ParseCondition(split[i])]
    ELSE << FilterKey(Highway) >>

\* The loop of the filter! closure from position i on, ret_val being the flag so far.
RECURSIVE FilterLoop(_, _, _, _)
FilterLoop(fs, tags, i, ret_val) ==
    IF i > Len(fs) THEN ret_val
    ELSE LET f == fs[i] IN
         IF f.type = "Key"
         THEN FilterLoop(fs, tags, i + 1,
                         IF f.key \in DOMAIN tags THEN TRUE ELSE ret_val)
         ELSE FilterLoop(fs, tags, i + 1,
                         IF f.key \in DOMAIN tags /\ tags[f.key] = f.value
                         THEN TRUE ELSE ret_val)

\* Mutant: every condition overwrites the flag, so only the last one counts.
FilterLast(fs, tags) ==
    /\ fs # << >>
    /\ LET f == fs[Len(fs)] IN
       IF f.type = "Key" THEN f.key \in DOMAIN tags
       ELSE f.key \in DOMAIN tags /\ tags[f.key] = f.value

\* The closure filter!(&filters) applied to an object's tags.
Filter(fs, tags) == FilterLoop(fs, tags, 1, FALSE)

---------------------------------------------------------------------------
(* OSM objects *)

NodeIds == {1, 2, 3}

WayIds == {1, 2}

OsmIdNode(n) == [kind |-> "Node", id |-> n]

OsmIdWay(w) == [kind |-> "Way", id |-> w]

Node(n, lat, tags) ==
    [kind |-> "Node", id |-> n, lat |-> lat, lon |-> 0, tags |-> tags]

Way(w, nodes, tags) == [kind |-> "Way", id |-> w, nodes |-> nodes, tags |-> tags]

Range(s) == {s[i] : i \in DOMAIN s}

\* The elements of a set of integers in increasing order.
RECURSIVE Sorted(_)
Sorted(S) ==
    IF S = {} THEN << >>
    ELSE LET m == CHOOSE x \in S : \A y \in S : x <= y IN << m >> \o Sorted(S \ {m})

\* Mutant: the test obj.is_way() is missing.
SelectionPredicateAnyKind(fs, obj) == Filter(fs, obj.tags)

\* The predicate main() hands to get_objs_and_deps.
SelectionPredicate(fs, obj) == obj.kind = "Way" /\ Filter(fs, obj.tags)

\* The node ids the ways among the given objects refer to.
Deps(file, ids) ==
    {OsmIdNode(n) : n \in UNION {Range(file[k].nodes) : k \in {i \in ids : i.kind = "Way"}}}

\* OsmPbfReader::get_objs_and_deps: the objects the predicate selects and the
\* objects they refer to, as far as the file holds them.
GetObjsAndDeps(file, fs) ==
    LET selected == {k \in DOMAIN file : SelectionPredicate(fs, file[k])}
        wanted   == (selected \cup Deps(file, selected)) \cap DOMAIN file
    IN  [k \in wanted |-> file[k]]

\* The ids of the nodes, and of the ways, of a map of objects (its iteration order
\* is that of OsmId: nodes before ways, each by increasing id).
NodesOf(m) == {k.id : k \in {i \in DOMAIN m : i.kind = "Node"}}

WaysOf(m) == {k.id : k \in {i \in DOMAIN m : i.kind = "Way"}}

---------------------------------------------------------------------------
(* The elevation raster *)

\* dataset.geo_transform(): x_geo = gt[1] + px*gt[2] + line*gt[3],
\*                          y_geo = gt[4] + px*gt[5] + line*gt[6].
\* A north-up raster (no rotation) with its top edge at latitude 6 and lines of height 2.
GeoTransform == << 0, 1, 0, 6, 0, -2 >>

\* rasterband data, one value per line (the raster is one pixel wide).
RasterBand == << 100, 150, 120 >>

RasterXSize == 1

RasterYSize == Len(RasterBand)

\* `q as isize` for the quotient q = num/den: truncation toward zero.
AsIsize(num, den) ==
    LET q == Abs(num) \div Abs(den) IN
    IF (num < 0) = (den < 0) THEN q ELSE -q

\* invert_transform.apply(lon, lat) followed by the two casts to isize.
PixelOf(lon, lat) ==
    << AsIsize(lon - GeoTransform[1], GeoTransform[2]),
       AsIsize(lat - GeoTransform[4], GeoTransform[6]) >>

\* rasterband.read_as((x, y), (1, 1), (1, 1), NearestNeighbour): Ok(value) as
\* Some, Err as None when the window is not inside the raster.
ReadAs(x, y) ==
    IF 0 <= x /\ x < RasterXSize /\ 0 <= y /\ y < RasterYSize
    THEN Some(RasterBand[y + 1])
    ELSE None

---------------------------------------------------------------------------
(* Aggregation *)

EarthRadius == 6371

Location(lat, lon) == [latitude |-> lat, longitude |-> lon]

\* haversine_distance for two locations of equal longitude, where c = |d_lat|;
\* in metres, the angles being in milliradians.
haversine_distance(start, end) ==
    LET d_lat == end.latitude - start.latitude
        c     == Abs(d_lat)
    IN  EarthRadius * c

\* Mutant: the second iterator is not advanced, so every node is paired with itself.
PairsNoSkip(nodes) == [i \in 1..Len(nodes) |-> << nodes[i], nodes[i] >>]

\* way.nodes.iter().zip(way.nodes.iter().skip(1)): the consecutive pairs, which
\* end with the shorter iterator.
Pairs(nodes) == [i \in 1..(Len(nodes) - 1) |-> << nodes[i], nodes[i + 1] >>]

WayInfo(distance, climb_distance, descent_distance, climb, descent) ==
    [distance |-> distance, climb_distance |-> climb_distance,
     descent_distance |-> descent_distance, climb |-> climb, descent |-> descent]

\* Mutant: the descent branch subtracts the elevations the wrong way round.
FoldSegmentSignSlip(w, node_a, node_b, elev_a, elev_b) ==
    LET distance == w.distance
                    + haversine_distance(Location(node_a.lat, node_a.lon),
                                         Location(node_b.lat, node_b.lon))
    IN  IF elev_a < elev_b
        THEN [w EXCEPT !.distance = distance,
                       !.climb_distance = w.climb_distance + distance,
                       !.climb = w.climb + (elev_b - elev_a)]
        ELSE [w EXCEPT !.distance = distance,
                       !.descent_distance = w.descent_distance + distance,
                       !.descent = w.descent + (elev_b - elev_a)]

\* The body of the closure over one pair (a, b), all lookups having succeeded.
FoldSegment(w, node_a, node_b, elev_a, elev_b) ==
    LET distance == w.distance
                    + haversine_distance(Location(node_a.lat, node_a.lon),
                                         Location(node_b.lat, node_b.lon))
    IN  IF elev_a < elev_b
        THEN [w EXCEPT !.distance = distance,
                       !.climb_distance = w.climb_distance + distance,
                       !.climb = w.climb + (elev_b - elev_a)]
        ELSE [w EXCEPT !.distance = distance,
                       !.descent_distance = w.descent_distance + distance,
                       !.descent = w.descent + (elev_a - elev_b)]

ZeroWayInfo == WayInfo(0, 0, 0, 0, 0)

---------------------------------------------------------------------------
(* Inputs *)

\* Node latitudes: 7 lies above the raster's top edge and truncates into line 0,
\* 5 is in line 0, 3 in line 1, 1 in line 2, and 0 is below the last line.
Lats == {0, 1, 3, 5, 7}

NoTags == << >>

Tag(key, value) == key :> value

\* Node sequences of at most n nodes.
RECURSIVE NodeSeqs(_)
NodeSeqs(n) ==
    IF n = 0 THEN {<< >>}
    ELSE LET shorter == NodeSeqs(n - 1) IN
         shorter \cup {Append(s, x) : s \in {t \in shorter : Len(t) = n - 1}, x \in NodeIds}

\* The file holding the given nodes and ways.
PbfOf(nodes, ways) ==
    [k \in {OsmIdNode(n) : n \in DOMAIN nodes} \cup {OsmIdWay(w) : w \in DOMAIN ways} |->
        IF k.kind = "Node" THEN nodes[k.id] ELSE ways[k.id]]

\* Runs over every terrain: the default filter, two highways, every placement of
\* the nodes and every node sequence of way 1.
InitTerrain ==
    /\ args_filter = None
    /\ files_ok = TRUE
    /\ write_ok = TRUE
    /\ \E lat \in [NodeIds -> Lats], nodes1 \in NodeSeqs(MaxWayLen),
          nodes2 \in {<< >>, << 2 >>, << 3, 1 >>} :
          pbf = PbfOf([n \in NodeIds |-> Node(n, lat[n], NoTags)],
                      (1 :> Way(1, nodes1, Tag(Highway, Primary)))
                      @@ (2 :> Way(2, nodes2, Tag(Highway, Paved))))

FilterArgs ==
    { None,
      Some(Highway \o << "=" >> \o Primary),
      Some(Surface \o << "=" >> \o Paved \o << "," >> \o Highway \o << "=" >> \o Primary),
      Some(Surface),
      Some(Highway \o << "=" >>) }

WayTags ==
    { NoTags, Tag(Highway, Primary), Tag(Highway, Paved), Tag(Surface, Paved),
      Tag(Highway, << >>) }

\* Runs over every tagging: every filter and every tagging of two short ways, a
\* node that may carry a tag of its own, a node the file may lack, a node that
\* may lie off the raster, input files that may not open and an output file that
\* may not be writable.
InitTagging ==
    /\ args_filter \in FilterArgs
    /\ files_ok \in BOOLEAN
    /\ write_ok \in BOOLEAN
    /\ \E tags1 \in WayTags, tags2 \in WayTags,
          nodes1 \in {<< >>, << 1 >>, << 1, 2 >>, << 2, 3, 2 >>},
          nodes2 \in {<< 3 >>, << 2, 1 >>, << 1, 3 >>},
          present \in {NodeIds, NodeIds \ {3}},
          tagged \in {0, 1, 3},
          lat3 \in {5, 0} :
          pbf = PbfOf([n \in present |->
                         Node(n, IF n = 3 THEN lat3 ELSE 2 * n - 1,
                              IF n = tagged THEN Tag(Highway, Crossing) ELSE NoTags)],
                      (1 :> Way(1, nodes1, tags1)) @@ (2 :> Way(2, nodes2, tags2)))

Init ==
    /\ InitTerrain \/ InitTagging
    /\ pc = "start"
    /\ filters = << >>
    /\ objs = << >>
    /\ node_iter = << >>
    /\ node_elevation = << >>
    /\ read_calls = [n \in NodeIds |-> 0]
    /\ way_iter = << >>
    /\ seg = 0
    /\ acc = ZeroWayInfo
    /\ result_map = << >>
    /\ output = None

---------------------------------------------------------------------------
(* main() *)

\* Build the array of filters from the optional argument.
BuildFilters ==
    /\ pc = "start"
    /\ filters' = ParseFilters(args_filter)
    /\ pc' = "filters"
    /\ UNCHANGED << args_filter, pbf, files_ok, write_ok, objs, node_iter, node_elevation,
                    read_calls, way_iter, seg, acc, result_map, output >>

\* Open the OSM file and the elevation file; either expect() panics on failure.
OpenInputs ==
    /\ pc = "filters"
    /\ pc' = IF files_ok THEN "opened" ELSE "panicked"
    /\ UNCHANGED << args_filter, pbf, files_ok, write_ok, filters, objs, node_iter,
                    node_elevation, read_calls, way_iter, seg, acc, result_map, output >>

\* Get the ways the filter selects and their dependencies; create node_elevation.
SelectObjs ==
    /\ pc = "opened"
    /\ objs' = GetObjsAndDeps(pbf, filters)
    /\ node_iter' = Sorted(NodesOf(objs'))
    /\ node_elevation' = << >>
    /\ pc' = "sampling"
    /\ UNCHANGED << args_filter, pbf, files_ok, write_ok, filters, read_calls, way_iter,
                    seg, acc, result_map, output >>

\* Mutant: a failed read yields a default elevation of 0 instead of a panic.
SampleNodeDefault ==
    /\ pc = "sampling"
    /\ node_iter # << >>
    /\ LET id        == Head(node_iter)
           node      == objs[OsmIdNode(id)]
           xy        == PixelOf(node.lon, node.lat)
           elevation == ReadAs(xy[1], xy[2])
       IN  /\ read_calls' = [read_calls EXCEPT ![id] = @ + 1]
           /\ node_elevation' =
                  (id :> (IF elevation = None THEN 0 ELSE elevation[1])) @@ node_elevation
           /\ node_iter' = Tail(node_iter)
           /\ pc' = pc
    /\ UNCHANGED << args_filter, pbf, files_ok, write_ok, filters, objs, way_iter, seg,
                    acc, result_map, output >>

\* One iteration of the loop over the nodes of objs: read the node's pixel and
\* insert its value; unwrap() panics when the read fails.
SampleNode ==
    /\ pc = "sampling"
    /\ node_iter # << >>
    /\ LET id        == Head(node_iter)
           node      == objs[OsmIdNode(id)]
           xy        == PixelOf(node.lon, node.lat)
           elevation == ReadAs(xy[1], xy[2])
       IN  /\ read_calls' = [read_calls EXCEPT ![id] = @ + 1]
           /\ IF elevation = None
              THEN /\ pc' = "panicked"
                   /\ UNCHANGED << node_elevation, node_iter >>
              ELSE /\ node_elevation' = (id :> elevation[1]) @@ node_elevation
                   /\ node_iter' = Tail(node_iter)
                   /\ pc' = pc
    /\ UNCHANGED << args_filter, pbf, files_ok, write_ok, filters, objs, way_iter, seg,
                    acc, result_map, output >>

\* Mutant: the aggregation may start while nodes are still to be sampled.
StartWaysEarly ==
    /\ pc = "sampling"
    /\ way_iter' = Sorted(WaysOf(objs))
    /\ result_map' = << >>
    /\ pc' = "ways"
    /\ UNCHANGED << args_filter, pbf, files_ok, write_ok, filters, objs, node_iter,
                    node_elevation, read_calls, seg, acc, output >>

\* The sampling loop is over: create the iterator over the ways and result_map.
StartWays ==
    /\ pc = "sampling"
    /\ node_iter = << >>
    /\ way_iter' = Sorted(WaysOf(objs))
    /\ result_map' = << >>
    /\ pc' = "ways"
    /\ UNCHANGED << args_filter, pbf, files_ok, write_ok, filters, objs, node_iter,
                    node_elevation, read_calls, seg, acc, output >>

\* Enter the closure for the next way: the five accumulators start at 0.0.
BeginWay ==
    /\ pc = "ways"
    /\ way_iter # << >>
    /\ acc' = ZeroWayInfo
    /\ seg' = 1
    /\ pc' = "segments"
    /\ UNCHANGED << args_filter, pbf, files_ok, write_ok, filters, objs, node_iter,
                    node_elevation, read_calls, way_iter, result_map, output >>

\* One pair (a, b) of way.nodes zipped with itself skipped by one; each unwrap()
\* panics when its lookup finds nothing.
Segment ==
    /\ pc = "segments"
    /\ LET pairs == Pairs(objs[OsmIdWay(Head(way_iter))].nodes) IN
       /\ seg <= Len(pairs)
       /\ LET a == pairs[seg][1]
              b == pairs[seg][2]
          IN  IF /\ OsmIdNode(a) \in DOMAIN objs
                 /\ OsmIdNode(b) \in DOMAIN objs
                 /\ a \in DOMAIN node_elevation
                 /\ b \in DOMAIN node_elevation
              THEN /\ acc' = FoldSegment(acc, objs[OsmIdNode(a)], objs[OsmIdNode(b)],
                                         node_elevation[a], node_elevation[b])
                   /\ seg' = seg + 1
                   /\ pc' = pc
              ELSE /\ pc' = "panicked"
                   /\ UNCHANGED << acc, seg >>
    /\ UNCHANGED << args_filter, pbf, files_ok, write_ok, filters, objs, node_iter,
                    node_elevation, read_calls, way_iter, result_map, output >>

\* Mutant: a way without any pair gets no record.
InsertWaySkipShort ==
    /\ pc = "segments"
    /\ LET id    == Head(way_iter)
           pairs == Pairs(objs[OsmIdWay(id)].nodes)
       IN  /\ seg > Len(pairs)
           /\ result_map' = IF pairs = << >> THEN result_map
                            ELSE (id :> acc) @@ result_map
    /\ way_iter' = Tail(way_iter)
    /\ pc' = "ways"
    /\ UNCHANGED << args_filter, pbf, files_ok, write_ok, filters, objs, node_iter,
                    node_elevation, read_calls, seg, acc, output >>

\* The pairs of the way are exhausted: insert its WayInfo under its id.
InsertWay ==
    /\ pc = "segments"
    /\ LET id == Head(way_iter) IN
       /\ seg > Len(Pairs(objs[OsmIdWay(id)].nodes))
       /\ result_map' = (id :> acc) @@ result_map
    /\ way_iter' = Tail(way_iter)
    /\ pc' = "ways"
    /\ UNCHANGED << args_filter, pbf, files_ok, write_ok, filters, objs, node_iter,
                    node_elevation, read_calls, seg, acc, output >>

\* Serialize result_map and write it to the output file; expect() panics when
\* the file cannot be written.
WriteOutput ==
    /\ pc = "ways"
    /\ way_iter = << >>
    /\ IF write_ok
       THEN output' = Some(result_map) /\ pc' = "done"
       ELSE output' = output /\ pc' = "panicked"
    /\ UNCHANGED << args_filter, pbf, files_ok, write_ok, filters, objs, node_iter,
                    node_elevation, read_calls, way_iter, seg, acc, result_map >>

Next ==
    \/ BuildFilters
    \/ OpenInputs
    \/ SelectObjs
    \/ SampleNode
    \/ StartWays
    \/ BeginWay
    \/ Segment
    \/ InsertWay
    \/ WriteOutput

Spec == Init /\ [][Next]_vars

---------------------------------------------------------------------------
(* Filter parsing on its own: every filter string of at most MaxStrLen characters *)

Alphabet == {"k", "v", "=", ","}

RECURSIVE Strings(_)
Strings(n) ==
    IF n = 0 THEN {<< >>}
    ELSE LET shorter == Strings(n - 1) IN
         shorter \cup {Append(s, c) : s \in {t \in shorter : Len(t) = n - 1}, c \in Alphabet}

InitParse ==
    /\ args_filter \in {Some(s) : s \in Strings(MaxStrLen)}
    /\ files_ok = TRUE
    /\ write_ok = TRUE
    /\ pbf = << >>
    /\ pc = "start"
    /\ filters = << >>
    /\ objs = << >>
    /\ node_iter = << >>
    /\ node_elevation = << >>
    /\ read_calls = [n \in NodeIds |-> 0]
    /\ way_iter = << >>
    /\ seg = 0
    /\ acc = ZeroWayInfo
    /\ result_map = << >>
    /\ output = None

SpecParse == InitParse /\ [][BuildFilters]_vars

---------------------------------------------------------------------------
(* Vocabulary of the properties *)

\* HasKey(k) holds iff the tags contain k; KeyEquals(k, v) iff they map k to v.
ConditionHolds(f, tags) ==
    IF f.type = "Key" THEN f.key \in DOMAIN tags
    ELSE f.key \in DOMAIN tags /\ tags[f.key] = f.value

Matches(fs, tags) == \E i \in 1..Len(fs) : ConditionHolds(fs[i], tags)

\* get_objs_and_deps has returned.
ObjsReady ==
    \/ pc \in {"sampling", "ways", "segments", "done"}
    \/ pc = "panicked" /\ files_ok

\* The aggregation loop has been entered (a panic before it leaves the input
\* files unopened or a node in node_iter).
Aggregating ==
    \/ pc \in {"ways", "segments", "done"}
    \/ pc = "panicked" /\ files_ok /\ node_iter = << >>

\* The ways of the file whose tags match the filters, and the nodes they refer to.
SelectedWays == {w \in WaysOf(pbf) : Matches(filters, pbf[OsmIdWay(w)].tags)}

NeededNodes == UNION {Range(pbf[OsmIdWay(w)].nodes) : w \in SelectedWays}

NodesOfWay(w) == pbf[OsmIdWay(w)].nodes

\* What the raster holds at a node of the file: None when the read fails.
SampleOf(n) ==
    LET xy == PixelOf(pbf[OsmIdNode(n)].lon, pbf[OsmIdNode(n)].lat) IN ReadAs(xy[1], xy[2])

\* A way of n nodes has n - 1 segments, and none when n <= 1.
SegmentCount(nodes) == IF Len(nodes) >= 2 THEN Len(nodes) - 1 ELSE 0

SegmentLength(a, b) ==
    haversine_distance(Location(pbf[OsmIdNode(a)].lat, pbf[OsmIdNode(a)].lon),
                       Location(pbf[OsmIdNode(b)].lat, pbf[OsmIdNode(b)].lon))

\* What the segment (a, b) adds to a field when each segment counts with its own length.
Contribution(field, a, b) ==
    LET up == node_elevation[b] > node_elevation[a] IN
    CASE field = "distance" -> SegmentLength(a, b)
      [] field = "climb" -> IF up THEN node_elevation[b] - node_elevation[a] ELSE 0
      [] field = "descent" -> IF up THEN 0 ELSE node_elevation[a] - node_elevation[b]
      [] field = "climb_distance" -> IF up THEN SegmentLength(a, b) ELSE 0
      [] field = "descent_distance" -> IF up THEN 0 ELSE SegmentLength(a, b)

\* The sum of the contributions of the first k segments of a node sequence.
RECURSIVE SumOver(_, _, _)
SumOver(field, nodes, k) ==
    IF k = 0 THEN 0
    ELSE SumOver(field, nodes, k - 1) + Contribution(field, nodes[k], nodes[k + 1])

---------------------------------------------------------------------------
(* Properties *)

\* C1: in every WayInfo, climb_distance + descent_distance equals distance.
C1_DistancesPartition ==
    \A w \in DOMAIN result_map :
        result_map[w].climb_distance + result_map[w].descent_distance
            = result_map[w].distance

\* C2: climb_distance is the sum of the lengths of the segments that go up, and
\* descent_distance the sum of the lengths of all the other segments.
C2_PerSegmentDistances ==
    \A w \in DOMAIN result_map :
        LET nodes == NodesOfWay(w)
            n     == SegmentCount(nodes)
        IN  /\ result_map[w].climb_distance = SumOver("climb_distance", nodes, n)
            /\ result_map[w].descent_distance = SumOver("descent_distance", nodes, n)

\* A condition split on its first '=' only: the value is all the text after it.
SplitOnFirstEquals(condition) ==
    LET i == Find(condition, "=", 1) IN
    IF i = 0 THEN FilterKey(condition)
    ELSE FilterKeyValue(SubSeq(condition, 1, i - 1),
                        SubSeq(condition, i + 1, Len(condition)))

\* C3: the filter string is split on ',' and each condition on its first '=' only;
\* without '=' it is HasKey(condition), with one it is KeyEquals(key, value), the
\* value being the whole text after the first '='.
C3_ParseSplitsOnFirstEquals ==
    (pc = "filters" /\ args_filter # None) =>
        LET conditions == Split(args_filter[1], ",") IN
        filters = [i \in 1..Len(conditions) |-> SplitOnFirstEquals(conditions[i])]

\* C4: the ways get_objs_and_deps returns are the ways of the file with at least
\* one condition holding on their tags, and the nodes it returns are the nodes
\* those ways refer to: no object other than a way is selected.
C4_SelectionIsAnyCondition ==
    ObjsReady =>
        /\ WaysOf(objs) = SelectedWays
        /\ NodesOf(objs) = NeededNodes \cap NodesOf(pbf)
        /\ \A k \in DOMAIN objs : objs[k] = pbf[k]

\* Two conditions, a selected way on which only the first holds, a way with the
\* key of the second but another value left out, and a node left out.
C4_Witness ==
    /\ ObjsReady
    /\ Len(filters) = 2
    /\ \E w \in WaysOf(objs) :
          /\ ConditionHolds(filters[1], pbf[OsmIdWay(w)].tags)
          /\ ~ConditionHolds(filters[2], pbf[OsmIdWay(w)].tags)
    /\ \E w \in WaysOf(pbf) \ WaysOf(objs) :
          filters[2].key \in DOMAIN pbf[OsmIdWay(w)].tags
    /\ NodesOf(pbf) \ NodesOf(objs) # {}

\* C5: a failed read of a needed node ends the run at once: no default elevation
\* enters node_elevation, no later node is read, no way is aggregated and the
\* output file is not written; the output is written only when every node of
\* objs was read successfully and every way of objs was folded to its end.
C5_SamplingFailureAborts ==
    /\ \A n \in DOMAIN node_elevation : SampleOf(n) = Some(node_elevation[n])
    /\ (ObjsReady /\ \E n \in NodesOf(objs) : SampleOf(n) = None) =>
          /\ pc \in {"sampling", "panicked"}
          /\ way_iter = << >> /\ result_map = << >> /\ seg = 0 /\ acc = ZeroWayInfo
          /\ output = None
    /\ (pc = "panicked" /\ node_iter # << >>) =>
          /\ SampleOf(Head(node_iter)) = None
          /\ \A i \in 2..Len(node_iter) : read_calls[node_iter[i]] = 0
    /\ pc = "panicked" => output = None
    /\ output # None =>
          /\ pc = "done"
          /\ \A n \in NodesOf(objs) :
                SampleOf(n) # None /\ n \in DOMAIN node_elevation /\ read_calls[n] = 1
          /\ \A w \in WaysOf(objs) :
                SegmentCount(NodesOfWay(w)) > 0 => Range(NodesOfWay(w)) \subseteq NodesOf(objs)
          /\ output = Some(result_map)
          /\ DOMAIN result_map = WaysOf(objs)

\* The run has panicked on the read of a node, after a successful read and with
\* a node still to be read.
C5_Witness ==
    /\ pc = "panicked"
    /\ node_iter # << >>
    /\ read_calls[Head(node_iter)] = 1
    /\ SampleOf(Head(node_iter)) = None
    /\ node_elevation # << >>
    /\ Len(node_iter) >= 2
    /\ output = None

\* C6: the output holds one WayInfo under the id of every selected way, also of
\* those with fewer than two nodes, and nothing under any other key.
C6_OneRecordPerSelectedWay ==
    /\ DOMAIN result_map \subseteq SelectedWays
    /\ output # None => DOMAIN output[1] = SelectedWays

\* The output is written with a record for a selected way of fewer than two nodes
\* and none for a way that is not selected, nor for the nodes.
C6_Witness ==
    /\ output # None
    /\ \E w \in DOMAIN output[1] : Len(NodesOfWay(w)) <= 1
    /\ WaysOf(pbf) \ DOMAIN output[1] # {}
    /\ NeededNodes \ DOMAIN output[1] # {}

\* C7: a selected way of at most one node is folded over no pair: its WayInfo is
\* all zero, and no lookup is made for it, so none can fail.
C7_ShortWayAllZero ==
    /\ \A w \in DOMAIN result_map :
          Len(NodesOfWay(w)) <= 1 => result_map[w] = ZeroWayInfo
    /\ (pc \in {"segments", "panicked"} /\ way_iter # << >>) =>
          (Len(NodesOfWay(Head(way_iter))) <= 1 =>
              pc = "segments" /\ seg = 1 /\ acc = ZeroWayInfo)

\* The output holds the all-zero record of a way whose only node the file lacks.
C7_Witness ==
    /\ output # None
    /\ \E w \in DOMAIN output[1] :
          /\ Len(NodesOfWay(w)) = 1
          /\ NodesOfWay(w)[1] \notin NodesOf(pbf)
          /\ output[1][w] = ZeroWayInfo
    /\ \E w \in DOMAIN output[1] : Len(NodesOfWay(w)) >= 2

\* distance, climb and descent of a WayInfo are the sums over the first k segments.
SumsAgree(info, nodes, k) ==
    /\ info.distance = SumOver("distance", nodes, k)
    /\ info.climb = SumOver("climb", nodes, k)
    /\ info.descent = SumOver("descent", nodes, k)
    /\ info.distance >= 0 /\ info.climb >= 0 /\ info.descent >= 0

\* C8: a way of n >= 2 nodes is folded over its n - 1 consecutive pairs in order:
\* after k pairs the accumulators hold the sums over the first k segments, and the
\* record inserted holds the sums over all n - 1; distance is the sum of the
\* lengths, climb of the rises, descent of the falls, each >= 0.
C8_FoldOverAllPairs ==
    /\ \A w \in DOMAIN result_map :
          Len(NodesOfWay(w)) >= 2 =>
              SumsAgree(result_map[w], NodesOfWay(w), Len(NodesOfWay(w)) - 1)
    /\ (pc = "segments" /\ Len(NodesOfWay(Head(way_iter))) >= 2) =>
          /\ seg \in 1..Len(NodesOfWay(Head(way_iter)))
          /\ SumsAgree(acc, NodesOfWay(Head(way_iter)), seg - 1)

\* A record of a way of three nodes that rises and falls over segments of
\* different lengths.
C8_Witness ==
    \E w \in DOMAIN result_map :
        /\ Len(NodesOfWay(w)) = 3
        /\ result_map[w].climb > 0
        /\ result_map[w].descent > 0
        /\ SegmentLength(NodesOfWay(w)[1], NodesOfWay(w)[2])
              # SegmentLength(NodesOfWay(w)[2], NodesOfWay(w)[3])
        /\ result_map[w].distance
              = SegmentLength(NodesOfWay(w)[1], NodesOfWay(w)[2])
                + SegmentLength(NodesOfWay(w)[2], NodesOfWay(w)[3])

\* C9: when the aggregation starts node_elevation holds every node of objs, no
\* step changes it from then on, and a step that folds a pair (a, b) finds both
\* a and b in it.
C9_IndexFrozenBeforeAggregation ==
    /\ [](Aggregating => DOMAIN node_elevation = NodesOf(objs))
    /\ [][ /\ Aggregating => node_elevation' = node_elevation
           /\ (pc = "segments" /\ seg' # seg) =>
                 /\ seg' = seg + 1
                 /\ NodesOfWay(Head(way_iter))[seg] \in DOMAIN node_elevation
                 /\ NodesOfWay(Head(way_iter))[seg + 1] \in DOMAIN node_elevation ]_vars

\* The second pair of a way is about to be folded, with several nodes in the index.
C9_Witness ==
    /\ pc = "segments"
    /\ seg = 2
    /\ Len(NodesOfWay(Head(way_iter))) = 3
    /\ Cardinality(DOMAIN node_elevation) >= 2

\* C10: read_as is called at most once for a node id, and only for nodes some
\* selected way refers to; no other node gets an entry in node_elevation.
C10_SampledOncePerNeededNode ==
    /\ \A n \in NodeIds :
          /\ read_calls[n] <= 1
          /\ read_calls[n] = 1 => n \in NeededNodes
    /\ DOMAIN node_elevation \subseteq NeededNodes

\* The run is over; a node repeated inside a selected way and a node shared by
\* both selected ways were each read once, and a node of the file that no
\* selected way refers to was not read.
C10_Witness ==
    /\ pc = "done"
    /\ SelectedWays = WayIds
    /\ \E n \in NodeIds :
          /\ Cardinality({i \in DOMAIN NodesOfWay(1) : NodesOfWay(1)[i] = n}) >= 2
          /\ read_calls[n] = 1
    /\ \E n \in Range(NodesOfWay(1)) \cap Range(NodesOfWay(2)) : read_calls[n] = 1
    /\ \E m \in NodesOf(pbf) \ NeededNodes :
          read_calls[m] = 0 /\ m \notin DOMAIN node_elevation

====
